---- MODULE Spec2Model ----
(***************************************************************************)
(* Handle layer of hdf5-rs (src/hdf5-rs/src/handle.rs): the identifier     *)
(* predicates, the Registry of shared cells, Handle with its clone / drop  *)
(* contract and FromID::from_id, run by several threads over a native      *)
(* library that keeps one reference count per identifier.                  *)
(*                                                                         *)
(* A thread is idle, between two lock regions of incref, or inside a call  *)
(* of the native library.  One step of a thread runs from the return of    *)
(* one native call to the entry of the next: the code between two native   *)
(* calls touches a Shared Cell at most once, every other statement of it   *)
(* acts on state the global lock protects or on locals.                    *)
(***************************************************************************)
EXTENDS Integers, FiniteSets, Sequences, TLC

\* ---------------------------------------------------------------- bounds
MaxId == 1
MaxRef == 2
MaxHandles == 2
NThreads == 2
MaxProbe == 3

\* ------------------------------------------------------------- constants
H5I_INVALID_HID == -1
H5I_BADID == -1
H5I_NTYPES == 3

RegIds == 1..MaxId
PredefId == MaxId + 1
AllIds == H5I_INVALID_HID..PredefId
Categories == (H5I_BADID + 2)..(H5I_NTYPES - 1)
Threads == 1..NThreads
Handles == 1..MaxHandles
NCells == MaxHandles + (MaxId + 3) + 4
Cells == 1..NCells
Accepted == {H5I_BADID + 2}

VARIABLES
    refs,       \* native library: application reference count of each regular id
    cat,        \* native library: category of each positive id
    held,       \* references the callers hold on each id: 1 at issue, +1 per
                \* H5Iinc_ref issued, -1 per H5Idec_ref issued
    cells,      \* the Shared Cells: value of each RwLock<hid_t>
    registry,   \* REGISTRY: raw id -> cell (0: no entry)
    handles,    \* the live Handle values: handle -> its cell (0: no such Handle)
    h5owner,    \* the thread inside h5lock!, 0 when free (the lock is reentrant)
    th,         \* every thread's operation, position and locals
    last,       \* what the operation that returned in the last step did
    rt,         \* the last clone-then-drop round trip that nothing else disturbed
    degraded,   \* the live Handles that clone made through Handle::invalid()
    probe,      \* a call of get_id_type / is_valid_id by itself: its input, the
                \* answer of H5Iget_type, and the results
    lk          \* the locks every thread holds, in the order it took them, and the
                \* cell of the Shared Cell lock it holds

vars ==
    <<refs, cat, held, cells, registry, handles, h5owner, th, last, rt, degraded, probe,
      lk>>

Blank ==
    [pc |-> "idle", op |-> "none", h |-> 0, id |-> H5I_INVALID_HID,
     v |-> H5I_INVALID_HID, b |-> FALSE, dst |-> 0, ninc |-> 0, ndec |-> 0,
     rel |-> FALSE, v0 |-> H5I_INVALID_HID]

NoLast ==
    [op |-> "none", t |-> 0, h |-> 0, c |-> 0, id |-> H5I_INVALID_HID,
     ret |-> "none", r |-> 0, prev |-> 0, pk |-> "none", b |-> FALSE,
     ninc |-> 0, ndec |-> 0, rel |-> FALSE, nh |-> 0, chg |-> FALSE, wr |-> FALSE,
     v0 |-> H5I_INVALID_HID, rg |-> FALSE]

NoProbe ==
    [id |-> 0, tp |-> H5I_BADID, got |-> FALSE, cat |-> H5I_BADID, chk |-> FALSE,
     ok |-> FALSE]

NoLocks ==
    [hl |-> [t \in Threads |-> <<>>], cl |-> [t \in Threads |-> 0]]

NoRT == [st |-> "none", t |-> 0, src |-> 0, h2 |-> 0, x |-> H5I_INVALID_HID, r0 |-> 0]

\* the positions inside a call of the native library
NativePcs ==
    {"from_id_get_type", "new_is_valid", "incref_is_valid", "incref_inc_ref",
     "decref_get_type", "decref_dec_ref", "decref_is_valid", "decref_get_type2"}

InNative(t) == th[t].pc \in NativePcs

\* ------------------------------------------------------- native library
Live(id) == (id \in RegIds /\ refs[id] > 0) \/ id = PredefId

H5Iget_type(id) == IF Live(id) THEN cat[id] ELSE H5I_BADID

H5Iis_valid(id) == IF id \in RegIds /\ refs[id] > 0 THEN 1 ELSE 0

H5Iinc_ref(id) ==
    IF id \in RegIds /\ refs[id] > 0 THEN [refs EXCEPT ![id] = @ + 1] ELSE refs

H5Idec_ref(id) ==
    IF id \in RegIds /\ refs[id] > 0 THEN [refs EXCEPT ![id] = @ - 1] ELSE refs

\* the category of a released id is forgotten
CatAfter(newrefs) ==
    [x \in 1..PredefId |-> IF x \in RegIds /\ newrefs[x] = 0 THEN H5I_BADID + 2 ELSE cat[x]]

HeldInc(id) == IF id \in RegIds THEN [held EXCEPT ![id] = @ + 1] ELSE held

HeldDec(id) == IF id \in RegIds THEN [held EXCEPT ![id] = @ - 1] ELSE held

\* --------------------------------------------------- identifier predicates
\* get_id_type without the test id > 0 of line 13
get_id_type_of_any_id(id, tp) ==
    IF tp > H5I_BADID /\ tp < H5I_NTYPES THEN tp ELSE H5I_BADID

\* lines 13-18 of get_id_type, tp being the answer of H5Iget_type
get_id_type_of(id, tp) ==
    IF id > 0 /\ tp > H5I_BADID /\ tp < H5I_NTYPES THEN tp ELSE H5I_BADID

get_id_type(id) == get_id_type_of(id, H5Iget_type(id))

is_valid_id(id) ==
    LET tp == get_id_type(id) IN tp > H5I_BADID /\ tp < H5I_NTYPES

\* is_valid_id over an answer tp of H5Iget_type, lines 24-25
is_valid_id_of(id, tp) ==
    LET r == get_id_type_of(id, tp) IN r > H5I_BADID /\ r < H5I_NTYPES

is_valid_user_id(id) == H5Iis_valid(id) = 1

is_valid_id_type(tp) == tp \in Accepted

\* ------------------------------------------------------------ the cells
RootsOf(hs, reg, lst) ==
    ({hs[h] : h \in Handles} \cup {reg[x] : x \in AllIds}
        \cup {lst.c, lst.r, lst.prev}) \ {0}

Roots == RootsOf(handles, registry, last)

\* a cell nothing refers to is freed: its slot can be allocated again
Sweep(cs, hs, reg, lst) ==
    [c \in Cells |-> IF c \in RootsOf(hs, reg, lst) THEN cs[c] ELSE H5I_INVALID_HID]

FreshCell(used) == CHOOSE c \in Cells \ used : \A d \in Cells \ used : c <= d

FreeSlots == {h \in Handles : handles[h] = 0 /\ \A t \in Threads : th[t].dst # h}

FreshSlot == CHOOSE h \in FreeSlots : \A g \in FreeSlots : h <= g

Borrowed(h) == \E t \in Threads : th[t].h = h

Dropping(h) == \E t \in Threads : th[t].op = "drop" /\ th[t].h = h

Usable(h) == handles[h] # 0 /\ ~Dropping(h)

InFlightInc == Cardinality({t \in Threads : th[t].op \in {"clone", "incref"}})

RoomToInc == \A x \in RegIds : refs[x] + InFlightInc < MaxRef

\* Handle::id, lines 99-101
id(h) == cells[handles[h]]

\* Handle::invalidate, lines 103-105
invalidate(c) == [cells EXCEPT ![c] = H5I_INVALID_HID]

\* -------------------------------------------------------------- Registry
\* new_handle without lines 69-72: an entry is returned as it is found
new_handle_noreplace(x) ==
    LET e == registry[x]
        c1 == IF e = 0 THEN FreshCell(Roots) ELSE e
        cells1 == IF e = 0 THEN [cells EXCEPT ![c1] = x] ELSE cells
    IN  [reg |-> [registry EXCEPT ![x] = c1], cells |-> cells1, r |-> c1]

\* new_handle that makes a cell at every call, line 68 as an insert
new_handle_always_fresh(x) ==
    LET c == FreshCell(Roots)
    IN  [reg |-> [registry EXCEPT ![x] = c], cells |-> [cells EXCEPT ![c] = x], r |-> c]

\* new_handle that stores the id into the stale cell it finds, in place of
\* lines 70-71
new_handle_rewrites(x) ==
    LET e == registry[x]
        c1 == IF e = 0 THEN FreshCell(Roots) ELSE e
    IN  [reg |-> [registry EXCEPT ![x] = c1], cells |-> [cells EXCEPT ![c1] = x], r |-> c1]

\* Registry::new_handle: the Registry and the cells after it, and the cell
\* it returns
new_handle(x) ==
    LET e == registry[x]
        c1 == IF e = 0 THEN FreshCell(Roots) ELSE e
        cells1 == IF e = 0 THEN [cells EXCEPT ![c1] = x] ELSE cells
        stale == cells1[c1] # x
        c2 == IF stale THEN FreshCell(Roots \cup {c1}) ELSE c1
        cells2 == IF stale THEN [cells1 EXCEPT ![c2] = x] ELSE cells1
    IN  [reg |-> [registry EXCEPT ![x] = c2], cells |-> cells2, r |-> c2]

\* what the Registry holds for x: no entry, an entry whose cell holds x, or
\* a stale entry
EntryKind(x) ==
    IF registry[x] = 0 THEN "none"
    ELSE IF cells[registry[x]] = x THEN "same" ELSE "stale"

Init ==
    /\ refs = [x \in RegIds |-> 0]
    /\ cat = [x \in 1..PredefId |-> H5I_BADID + 2]
    /\ held = [x \in RegIds |-> 0]
    /\ cells = [c \in Cells |-> H5I_INVALID_HID]
    /\ registry = [x \in AllIds |-> 0]
    /\ handles = [h \in Handles |-> 0]
    /\ h5owner = 0
    /\ th = [t \in Threads |-> Blank]
    /\ last = NoLast
    /\ rt = NoRT
    /\ degraded = {}
    /\ probe = NoProbe
    /\ lk = NoLocks

\* the state as a record, and the step that installs one
Cur ==
    [refs |-> refs, cat |-> cat, held |-> held, cells |-> cells,
     registry |-> registry, handles |-> handles, h5owner |-> h5owner,
     th |-> th, last |-> NoLast, rt |-> rt, degraded |-> degraded,
     lk |-> lk]

Commit(s) ==
    /\ refs' = s.refs
    /\ cat' = s.cat
    /\ held' = s.held
    /\ registry' = s.registry
    /\ handles' = s.handles
    /\ h5owner' = s.h5owner
    /\ th' = s.th
    /\ last' = IF s.last.op = "none" THEN s.last
               ELSE [s.last EXCEPT
                        !.wr = \E c \in Roots : s.cells[c] # cells[c],
                        !.rg = s.registry # registry,
                        !.chg = \/ s.refs # refs \/ s.registry # registry
                                \/ s.handles # handles
                                \/ \E c \in Roots : s.cells[c] # cells[c]]
    /\ rt' = s.rt
    /\ degraded' = s.degraded
    /\ probe' = probe
    /\ lk' = s.lk
    /\ cells' = Sweep(s.cells, s.handles, s.registry, s.last)

\* ------------------------------------------------ the round-trip record
\* an operation of the round trip being recorded: the clone itself, then
\* the drop of the Handle that clone made
Tracked(t) ==
    \/ rt.st = "cloning" /\ rt.t = t /\ th[t].op = "clone"
    \/ rt.st = "cloned" /\ th[t].op = "drop" /\ th[t].h = rt.h2

\* any other change of the native counts, the cells, the Registry or the
\* Handles ends the record
RtAfter(t, changed) == IF changed /\ ~Tracked(t) THEN NoRT ELSE rt

\* what a returning operation reports
Outcome(t, ret) ==
    [NoLast EXCEPT !.op = th[t].op, !.t = t, !.h = th[t].h,
        !.c = IF th[t].h = 0 THEN 0 ELSE handles[th[t].h],
        !.id = th[t].id, !.ret = ret, !.b = th[t].b, !.ninc = th[t].ninc,
        !.ndec = th[t].ndec, !.rel = th[t].rel, !.nh = th[t].dst, !.v0 = th[t].v0,
        !.pk = IF th[t].op = "drop" /\ th[t].h \in degraded THEN "degraded" ELSE "none"]

Returned(t, s, ret) == [s EXCEPT !.th[t] = Blank, !.last = Outcome(t, ret)]

\* ------------------------------------------------------- native library
\* the library hands out a new id (its caller holds the lock)
LibIssue(x, k) ==
    /\ h5owner = 0
    /\ refs[x] = 0
    /\ Commit([Cur EXCEPT !.refs[x] = 1, !.cat[x] = k, !.held[x] = 1, !.rt = NoRT])

\* ------------------------------------------------------------ Handle::new
\* lines 86-87: h5lock!, and into H5Iis_valid through is_valid_user_id
NewEnter(t, x) ==
    /\ th[t].pc = "idle"
    /\ h5owner = 0
    /\ FreeSlots # {}
    /\ Commit([Cur EXCEPT !.h5owner = t,
                  !.th[t] = [Blank EXCEPT !.pc = "new_is_valid", !.op = "new",
                                 !.id = x, !.dst = FreshSlot]])

\* Handle::new with line 87 negated into a rejection of every id
new_accepts_none(x) == FALSE

\* Handle::new without the check of line 87
new_accepts_all(x) == TRUE

\* line 87: the condition of Handle::new
new_accepts(x) == is_valid_user_id(x)

\* lines 87-91 and 66-74, and for a clone the fallback of line 140
NewReturn(t) ==
    /\ th[t].pc = "new_is_valid"
    /\ LET x == th[t].id
           uv == is_valid_user_id(x)
           res == new_handle(x)
           c == FreshCell(Roots)
           s == [Cur EXCEPT !.h5owner = 0]
       IN  IF new_accepts(x)
           THEN Commit([Returned(t, s, "ok") EXCEPT
                    !.registry = res.reg, !.cells = res.cells,
                    !.handles[th[t].dst] = res.r,
                    !.last.r = res.r, !.last.prev = registry[x], !.last.pk = EntryKind(x),
                    !.last.b = IF th[t].op = "clone" THEN th[t].b ELSE uv,
                    !.rt = IF Tracked(t) THEN [rt EXCEPT !.st = "cloned"] ELSE NoRT])
           ELSE IF th[t].op = "clone"
           THEN Commit([Returned(t, s, "ok") EXCEPT
                    !.cells[c] = H5I_INVALID_HID,
                    !.handles[th[t].dst] = c,
                    !.degraded = degraded \cup {th[t].dst},
                    !.last.r = c, !.last.pk = "invalid",
                    !.rt = IF Tracked(t) THEN [rt EXCEPT !.st = "cloned"] ELSE rt])
           ELSE Commit([Returned(t, s, "InvalidHandle") EXCEPT !.last.b = uv])

\* -------------------------------------------------------- FromID::from_id
\* lines 41-42: h5lock!, and into H5Iget_type through get_id_type
FromIdEnter(t, x) ==
    /\ th[t].pc = "idle"
    /\ h5owner = 0
    /\ FreeSlots # {}
    /\ Commit([Cur EXCEPT !.h5owner = t,
                  !.th[t] = [Blank EXCEPT !.pc = "from_id_get_type", !.op = "from_id",
                                 !.id = x, !.dst = FreshSlot]])

\* from_id without the category check of line 42
from_id_accepts_all(x) == TRUE

\* line 42: the condition of from_id
from_id_accepts(x) == is_valid_id_type(get_id_type(x))

\* lines 42-46: into Handle::new, or the error
FromIdReturn(t) ==
    /\ th[t].pc = "from_id_get_type"
    /\ IF from_id_accepts(th[t].id)
       THEN Commit([Cur EXCEPT !.th[t].pc = "new_is_valid"])
       ELSE Commit(Returned(t, [Cur EXCEPT !.h5owner = 0], "WrongType"))

\* ------------------------------------------------ Handle::incref, clone
\* Clone::clone line 138, incref line 108: self.id(), and into H5Iis_valid
CloneEnter(t, h) ==
    /\ th[t].pc = "idle"
    /\ h5owner = 0
    /\ Usable(h) /\ RoomToInc /\ FreeSlots # {}
    /\ Commit([Cur EXCEPT !.h5owner = t,
                  !.th[t] = [Blank EXCEPT !.pc = "incref_is_valid", !.op = "clone",
                                 !.h = h, !.v = id(h), !.dst = FreshSlot],
                  !.rt = IF is_valid_user_id(id(h))
                         THEN [st |-> "cloning", t |-> t, src |-> h, h2 |-> FreshSlot,
                               x |-> id(h), r0 |-> refs[id(h)]]
                         ELSE rt])

\* Handle::incref called by itself, line 108: self.id()
IncrefRead(t, h) ==
    /\ th[t].pc = "idle"
    /\ Usable(h) /\ RoomToInc
    /\ Commit([Cur EXCEPT !.th[t] = [Blank EXCEPT !.pc = "incref_read", !.op = "incref",
                                         !.h = h, !.v = id(h)]])

\* lines 108, 30: h5lock! of is_valid_user_id, and into H5Iis_valid
IncrefLock(t) ==
    /\ th[t].pc = "incref_read"
    /\ h5owner = 0
    /\ Commit([Cur EXCEPT !.h5owner = t, !.th[t].pc = "incref_is_valid"])

\* incref that never reaches line 109
incref_increments_never(v) == FALSE

\* incref without the guard of line 108
incref_increments_always(v) == TRUE

\* line 108: the guard of the increment
incref_increments(v) == is_valid_user_id(v)

\* lines 108-109 (and 140 when the id is not user-valid): out of H5Iis_valid
IncrefValidReturn(t) ==
    /\ th[t].pc = "incref_is_valid"
    /\ LET b == is_valid_user_id(th[t].v)
           h == th[t].h
           s == [Cur EXCEPT !.th[t].b = b]
       IN  IF th[t].op = "clone"
           THEN IF incref_increments(th[t].v)
                THEN Commit([s EXCEPT !.th[t].pc = "incref_inc_ref", !.th[t].v = id(h)])
                ELSE Commit([s EXCEPT !.th[t].pc = "new_is_valid",
                                 !.th[t].v = H5I_INVALID_HID, !.th[t].id = id(h)])
           ELSE IF incref_increments(th[t].v)
                THEN Commit([s EXCEPT !.h5owner = 0, !.th[t].pc = "incref_relock",
                                 !.th[t].v = H5I_INVALID_HID])
                ELSE Commit([Returned(t, [s EXCEPT !.h5owner = 0], "ok") EXCEPT !.last.b = b])

\* line 109 without h5lock!
incref_inc_unlocked == FALSE

\* line 109: the increment is wrapped in h5lock!
incref_inc_locked == TRUE

\* line 109: h5lock!, self.id(), and into H5Iinc_ref
IncrefRelock(t) ==
    /\ th[t].pc = "incref_relock"
    /\ incref_inc_locked => h5owner = 0
    /\ Commit([Cur EXCEPT !.h5owner = IF incref_inc_locked THEN t ELSE h5owner,
                  !.th[t].pc = "incref_inc_ref", !.th[t].v = id(th[t].h)])

\* lines 109-110 (and 140 in a clone): out of H5Iinc_ref
IncRefReturn(t) ==
    /\ th[t].pc = "incref_inc_ref"
    /\ LET v == th[t].v
           s == [Cur EXCEPT !.refs = H5Iinc_ref(v), !.held = HeldInc(v),
                     !.th[t].ninc = @ + 1, !.rt = RtAfter(t, TRUE)]
       IN  IF th[t].op = "clone"
           THEN Commit([s EXCEPT !.th[t].pc = "new_is_valid",
                            !.th[t].v = H5I_INVALID_HID, !.th[t].id = id(th[t].h)])
           ELSE Commit([Returned(t, [s EXCEPT !.h5owner = IF h5owner = t THEN 0 ELSE @], "ok")
                            EXCEPT !.last.ninc = th[t].ninc + 1])

\* ------------------------------------------------- Handle::decref, drop
\* Drop::drop line 147, decref lines 114-115: self.id(), and into H5Iget_type
DropEnter(t, h) ==
    /\ th[t].pc = "idle"
    /\ h5owner = 0
    /\ handles[h] # 0 /\ ~Borrowed(h)
    /\ Commit([Cur EXCEPT !.h5owner = t,
                  !.th[t] = [Blank EXCEPT !.pc = "decref_get_type", !.op = "drop",
                                 !.h = h, !.v = id(h), !.v0 = id(h)]])

\* Handle::decref called by itself, lines 114-115
DecrefEnter(t, h) ==
    /\ th[t].pc = "idle"
    /\ h5owner = 0
    /\ Usable(h)
    /\ Commit([Cur EXCEPT !.h5owner = t,
                  !.th[t] = [Blank EXCEPT !.pc = "decref_get_type", !.op = "decref",
                                 !.h = h, !.v = id(h), !.v0 = id(h)]])

\* decref without the guard of line 115
decref_decrements_always(v) == TRUE

\* decref that never reaches line 116
decref_decrements_never(v) == FALSE

\* line 115: the guard of the decrement
decref_decrements(v) == is_valid_id(v)

\* lines 115-116 (119 when not valid): out of H5Iget_type
DecrefTypeReturn(t) ==
    /\ th[t].pc = "decref_get_type"
    /\ Commit([Cur EXCEPT
           !.th[t].pc = IF decref_decrements(th[t].v) THEN "decref_dec_ref"
                        ELSE "decref_is_valid",
           !.th[t].b = is_valid_id(th[t].v),
           !.th[t].v = id(th[t].h)])

\* lines 116-119: out of H5Idec_ref, self.id(), and into H5Iis_valid
DecRefReturn(t) ==
    /\ th[t].pc = "decref_dec_ref"
    /\ LET v == th[t].v
           nr == H5Idec_ref(v)
       IN  Commit([Cur EXCEPT !.refs = nr, !.cat = CatAfter(nr), !.held = HeldDec(v),
                       !.th[t].pc = "decref_is_valid", !.th[t].ndec = @ + 1,
                       !.th[t].rel = v \in RegIds /\ refs[v] = 1,
                       !.th[t].id = v,
                       !.th[t].v = id(th[t].h),
                       !.rt = RtAfter(t, TRUE)])

\* the end of decref, and of the drop that called it: the lock is released
\* and a dropped Handle is gone
Finish(t, cs) ==
    Commit([Returned(t, [Cur EXCEPT !.h5owner = 0], "ok") EXCEPT
        !.cells = cs,
        !.handles = IF th[t].op = "drop" THEN [handles EXCEPT ![th[t].h] = 0] ELSE handles,
        !.degraded = IF th[t].op = "drop" THEN degraded \ {th[t].h} ELSE degraded,
        !.rt = IF th[t].op = "drop" /\ Tracked(t) THEN [rt EXCEPT !.st = "dropped"]
               ELSE RtAfter(t, th[t].op = "drop" \/ cs # cells)])

\* line 119, left operand: out of H5Iis_valid
DecrefValidReturn(t) ==
    /\ th[t].pc = "decref_is_valid"
    /\ IF is_valid_user_id(th[t].v)
       THEN Finish(t, cells)
       ELSE Commit([Cur EXCEPT !.th[t].pc = "decref_get_type2", !.th[t].v = id(th[t].h)])

\* decref without lines 119-121
decref_invalidates_never(v) == FALSE

\* line 119, right operand, for an id that is not user-valid
decref_invalidates(v) == ~is_valid_id(v)

\* lines 119-121: out of H5Iget_type, and self.invalidate()
DecrefType2Return(t) ==
    /\ th[t].pc = "decref_get_type2"
    /\ IF decref_invalidates(th[t].v)
       THEN Finish(t, invalidate(handles[th[t].h]))
       ELSE Finish(t, cells)

\* ------------------------------------- invalidate, id, invalid by themselves
Invalidate(t, h) ==
    /\ th[t].pc = "idle"
    /\ Usable(h)
    /\ Commit([Cur EXCEPT !.cells = invalidate(handles[h]), !.rt = NoRT,
                  !.last = [NoLast EXCEPT !.op = "invalidate", !.t = t, !.h = h,
                                !.c = handles[h], !.ret = "ok"]])

Id(t, h) ==
    /\ th[t].pc = "idle"
    /\ Usable(h)
    /\ Commit([Cur EXCEPT !.last = [NoLast EXCEPT !.op = "id", !.t = t, !.h = h,
                                        !.c = handles[h], !.id = id(h), !.ret = "ok"]])

\* Handle::invalid, lines 95-97
Invalid(t) ==
    /\ th[t].pc = "idle"
    /\ FreeSlots # {}
    /\ LET c == FreshCell(Roots)
       IN  Commit([Cur EXCEPT !.cells[c] = H5I_INVALID_HID, !.handles[FreshSlot] = c,
                       !.last = [NoLast EXCEPT !.op = "invalid", !.t = t, !.r = c,
                                     !.ret = "ok"]])

Next ==
    \/ \E x \in RegIds, k \in Categories : LibIssue(x, k)
    \/ \E t \in Threads, x \in AllIds : NewEnter(t, x)
    \/ \E t \in Threads : NewReturn(t)
    \/ \E t \in Threads, x \in AllIds : FromIdEnter(t, x)
    \/ \E t \in Threads : FromIdReturn(t)
    \/ \E t \in Threads, h \in Handles : CloneEnter(t, h)
    \/ \E t \in Threads, h \in Handles : IncrefRead(t, h)
    \/ \E t \in Threads : IncrefLock(t)
    \/ \E t \in Threads : IncrefValidReturn(t)
    \/ \E t \in Threads : IncrefRelock(t)
    \/ \E t \in Threads : IncRefReturn(t)
    \/ \E t \in Threads, h \in Handles : DropEnter(t, h)
    \/ \E t \in Threads, h \in Handles : DecrefEnter(t, h)
    \/ \E t \in Threads : DecrefTypeReturn(t)
    \/ \E t \in Threads : DecRefReturn(t)
    \/ \E t \in Threads : DecrefValidReturn(t)
    \/ \E t \in Threads : DecrefType2Return(t)
    \/ \E t \in Threads, h \in Handles : Invalidate(t, h)
    \/ \E t \in Threads, h \in Handles : Id(t, h)
    \/ \E t \in Threads : Invalid(t)

Spec == Init /\ [][Next]_vars

\* callers that use only Handle::new, from_id, Handle::invalid, clone and drop
NextManaged ==
    \/ \E x \in RegIds, k \in Categories : LibIssue(x, k)
    \/ \E t \in Threads, x \in AllIds : NewEnter(t, x)
    \/ \E t \in Threads : NewReturn(t)
    \/ \E t \in Threads, x \in AllIds : FromIdEnter(t, x)
    \/ \E t \in Threads : FromIdReturn(t)
    \/ \E t \in Threads, h \in Handles : CloneEnter(t, h)
    \/ \E t \in Threads : IncrefValidReturn(t)
    \/ \E t \in Threads : IncRefReturn(t)
    \/ \E t \in Threads, h \in Handles : DropEnter(t, h)
    \/ \E t \in Threads : DecrefTypeReturn(t)
    \/ \E t \in Threads : DecRefReturn(t)
    \/ \E t \in Threads : DecrefValidReturn(t)
    \/ \E t \in Threads : DecrefType2Return(t)
    \/ \E t \in Threads : Invalid(t)

SpecManaged == Init /\ [][NextManaged]_vars

\* ------------------------------------------------- one Handle::new per issue
\* an id the library has issued and no Handle::new has wrapped yet: it is
\* live and no cell holds it
Unwrapped(x) ==
    /\ x \in RegIds /\ refs[x] > 0
    /\ \A c \in Cells : cells[c] # x

\* Handle::new on an id that has just been issued
NewOnIssued(t, x) ==
    /\ Unwrapped(x)
    /\ NewEnter(t, x)

\* callers that wrap every issued id by Handle::new once and otherwise only
\* clone and drop
NextOwned ==
    \/ \E x \in RegIds, k \in Categories : LibIssue(x, k)
    \/ \E t \in Threads, x \in RegIds : NewOnIssued(t, x)
    \/ \E t \in Threads : NewReturn(t)
    \/ \E t \in Threads, h \in Handles : CloneEnter(t, h)
    \/ \E t \in Threads : IncrefValidReturn(t)
    \/ \E t \in Threads : IncRefReturn(t)
    \/ \E t \in Threads, h \in Handles : DropEnter(t, h)
    \/ \E t \in Threads : DecrefTypeReturn(t)
    \/ \E t \in Threads : DecRefReturn(t)
    \/ \E t \in Threads : DecrefValidReturn(t)
    \/ \E t \in Threads : DecrefType2Return(t)

SpecOwned == Init /\ [][NextOwned]_vars

\* ------------------------------------ get_id_type and is_valid_id by themselves
\* the predicates over every id and every answer H5Iget_type can give
ProbeIds == (0 - MaxProbe)..MaxProbe

ProbeTypes == (H5I_BADID - MaxProbe)..(H5I_NTYPES + MaxProbe)

InitProbe ==
    /\ refs = [x \in RegIds |-> 0]
    /\ cat = [x \in 1..PredefId |-> H5I_BADID + 2]
    /\ held = [x \in RegIds |-> 0]
    /\ cells = [c \in Cells |-> H5I_INVALID_HID]
    /\ registry = [x \in AllIds |-> 0]
    /\ handles = [h \in Handles |-> 0]
    /\ h5owner = 0
    /\ th = [t \in Threads |-> Blank]
    /\ last = NoLast
    /\ rt = NoRT
    /\ degraded = {}
    /\ lk = NoLocks
    /\ \E x \in ProbeIds, tp \in ProbeTypes : probe = [NoProbe EXCEPT !.id = x, !.tp = tp]

\* get_id_type, lines 10-20
ProbeGetIdType ==
    /\ ~probe.got
    /\ probe' = [probe EXCEPT !.got = TRUE, !.cat = get_id_type_of(probe.id, probe.tp)]
    /\ UNCHANGED <<refs, cat, held, cells, registry, handles, h5owner, th, last, rt, degraded,
                   lk>>

\* is_valid_id, lines 22-27
ProbeIsValidId ==
    /\ ~probe.chk
    /\ probe' = [probe EXCEPT !.chk = TRUE, !.ok = is_valid_id_of(probe.id, probe.tp)]
    /\ UNCHANGED <<refs, cat, held, cells, registry, handles, h5owner, th, last, rt, degraded,
                   lk>>

NextProbe == ProbeGetIdType \/ ProbeIsValidId

SpecProbe == InitProbe /\ [][NextProbe]_vars

\* ------------------------------------------------------ the locks, one by one
\* The same operations with one step per lock acquisition: a step takes one
\* lock (or re-enters the global lock), runs the code up to the next
\* acquisition and releases what that code releases.  A Shared Cell lock is
\* taken in one step and released in the next step of its thread (its guard
\* is a temporary of lines 69, 100 and 104).

\* the lock a thread asks for at each position
Wants(pc) ==
    CASE pc \in {"l_new", "l_inc_valid", "l_inc_lock", "l_dec_valid1", "l_dec_uvalid",
                 "l_dec_valid2"} -> "g"
      [] pc = "l_reg" -> "reg"
      [] pc = "l_dec_write" -> "wr"
      [] pc \in {"l_cellread", "l_inc_id1", "l_inc_id2", "l_clone_id", "l_dec_id1",
                 "l_dec_id2", "l_dec_id3", "l_dec_id4"} -> "rd"
      [] OTHER -> "none"

Holds(t, l) == \E i \in 1..Len(lk.hl[t]) : lk.hl[t][i] = l

\* the thread is inside self.id.read() or self.id.write()
Locked(t) == Len(lk.hl[t]) > 0 /\ lk.hl[t][Len(lk.hl[t])] \in {"rd", "wr"}

\* the locks of the thread below a Shared Cell lock
Base(t) == IF Locked(t) THEN SubSeq(lk.hl[t], 1, Len(lk.hl[t]) - 1) ELSE lk.hl[t]

\* the cell whose lock the thread asks for
WantsCell(t) ==
    IF th[t].pc = "l_cellread" THEN registry[th[t].id]
    ELSE IF th[t].h # 0 THEN handles[th[t].h] ELSE 0

\* RwLock: readers share a cell, a writer has it alone
CellFree(t, k, c) ==
    \A u \in Threads \ {t} :
        (Locked(u) /\ lk.cl[u] = c) => (k = "rd" /\ Holds(u, "rd"))

\* h5lock!: the global lock is free, or the thread is inside it already
h5lock_free(t) == h5owner \in {0, t}

\* the lock is there to take: Mutex::lock of line 67 waits for the owner,
\* RwLock::read for the writer, RwLock::write for everyone
Available(t, l, c) ==
    CASE l = "g" -> h5lock_free(t)
      [] l = "reg" -> \A u \in Threads : ~Holds(u, "reg")
      [] OTHER -> CellFree(t, l, c)

\* the step of thread t that holds the locks hlnew at its end
LStep(t, s, hlnew) ==
    [s EXCEPT !.lk = [hl |-> [lk.hl EXCEPT ![t] = hlnew], cl |-> [lk.cl EXCEPT ![t] = 0]],
              !.h5owner = IF \E i \in 1..Len(hlnew) : hlnew[i] = "g" THEN t
                          ELSE IF h5owner = t THEN 0 ELSE h5owner]

\* the step of thread t that takes lock k (read or write) of cell c
LCellLock(t, s, k, c) ==
    [s EXCEPT !.lk = [hl |-> [lk.hl EXCEPT ![t] = @ \o <<k>>],
                      cl |-> [lk.cl EXCEPT ![t] = c]]]

\* self.id.read() / self.id.write() by a thread that is inside an operation
Take(t, k, c) ==
    /\ Available(t, k, c)
    /\ Commit(LCellLock(t, Cur, k, c))

\* the end of an operation: every guard of it has gone out of scope
LReturn(t, s) == LStep(t, [s EXCEPT !.th[t] = Blank], <<>>)

\* FromID::from_id lines 41-46, get_id_type lines 11-12: three h5lock!, then
\* H5Iget_type
LFromId(t, x) ==
    /\ th[t].pc = "idle"
    /\ FreeSlots # {}
    /\ Available(t, "g", 0)
    /\ IF from_id_accepts(x)
       THEN Commit(LStep(t, [Cur EXCEPT !.th[t] = [Blank EXCEPT !.pc = "l_new",
                                     !.op = "from_id", !.id = x, !.dst = FreshSlot]],
                         <<"g">>))
       ELSE Commit(LReturn(t, Cur))

\* Handle::new without the h5lock! of line 86
new_unlocked == FALSE

\* line 86: the body of Handle::new is inside h5lock!
new_locked == TRUE

\* Handle::new lines 86-91, is_valid_user_id line 30: h5lock! twice, then
\* H5Iis_valid; Handle::invalid() of line 140 when a clone finds an error
LNewBody(t, x, op, h, dst) ==
    /\ Available(t, "g", 0)
    /\ IF new_accepts(x)
       THEN Commit(LStep(t, [Cur EXCEPT !.th[t] = [Blank EXCEPT !.pc = "l_reg", !.op = op,
                                     !.h = h, !.id = x, !.dst = dst]],
                         IF new_locked THEN lk.hl[t] \o <<"g">> ELSE lk.hl[t]))
       ELSE IF op = "clone"
       THEN LET c == FreshCell(Roots)
            IN  Commit(LReturn(t, [Cur EXCEPT !.cells[c] = H5I_INVALID_HID,
                                       !.handles[dst] = c]))
       ELSE Commit(LReturn(t, Cur))

LNew(t, x) ==
    /\ th[t].pc = "idle"
    /\ FreeSlots # {}
    /\ LNewBody(t, x, "new", 0, FreshSlot)

\* Handle::new called by from_id (line 43) or by clone (line 140)
LNewInner(t) ==
    /\ th[t].pc = "l_new"
    /\ LNewBody(t, th[t].id, th[t].op, th[t].h, th[t].dst)

\* Registry::new_handle line 67: self.registry.lock()
LRegLock(t) ==
    /\ th[t].pc = "l_reg"
    /\ Available(t, "reg", 0)
    /\ Commit(LStep(t, [Cur EXCEPT !.th[t].pc = "l_cellread"], lk.hl[t] \o <<"reg">>))

\* new_handle whose MutexGuard is never dropped
new_handle_keeps_mutex == FALSE

\* line 74: the MutexGuard of line 67 goes out of scope
new_handle_unlocks == TRUE

\* lines 68-74: handle.read() on the entry's cell; then the comparison, the
\* replacement, and the returns of new_handle, Handle::new and their callers
LCellRead(t) ==
    /\ th[t].pc = "l_cellread"
    /\ IF ~Locked(t)
       THEN Take(t, "rd", registry[th[t].id])
       ELSE LET res == new_handle(th[t].id)
            IN  Commit(LStep(t, [Cur EXCEPT !.registry = res.reg, !.cells = res.cells,
                                     !.handles[th[t].dst] = res.r, !.th[t] = Blank],
                             IF new_handle_unlocks THEN <<>> ELSE <<"reg">>))

\* Clone::clone line 138: h5lock!
LClone(t, h) ==
    /\ th[t].pc = "idle"
    /\ Usable(h) /\ RoomToInc /\ FreeSlots # {}
    /\ Available(t, "g", 0)
    /\ Commit(LStep(t, [Cur EXCEPT !.th[t] = [Blank EXCEPT !.pc = "l_inc_id1",
                                  !.op = "clone", !.h = h, !.dst = FreshSlot]],
                    <<"g">>))

\* Handle::incref called by itself, line 108: self.id.read() of self.id()
LIncref(t, h) ==
    /\ th[t].pc = "idle"
    /\ Usable(h) /\ RoomToInc
    /\ Available(t, "rd", handles[h])
    /\ Commit(LCellLock(t, [Cur EXCEPT !.th[t] = [Blank EXCEPT !.pc = "l_inc_id1",
                                      !.op = "incref", !.h = h]],
                        "rd", handles[h]))

\* line 108: self.id(), of an incref by itself or inside clone
LIncId1(t) ==
    /\ th[t].pc = "l_inc_id1"
    /\ IF ~Locked(t)
       THEN Take(t, "rd", handles[th[t].h])
       ELSE Commit(LStep(t, [Cur EXCEPT !.th[t].pc = "l_inc_valid",
                                 !.th[t].v = id(th[t].h)],
                         Base(t)))

\* lines 108, 30: h5lock! of is_valid_user_id, H5Iis_valid
LIncValid(t) ==
    /\ th[t].pc = "l_inc_valid"
    /\ Available(t, "g", 0)
    /\ IF incref_increments(th[t].v)
       THEN Commit(LStep(t, [Cur EXCEPT !.th[t].pc = "l_inc_lock"], lk.hl[t]))
       ELSE IF th[t].op = "clone"
       THEN Commit(LStep(t, [Cur EXCEPT !.th[t].pc = "l_clone_id"], lk.hl[t]))
       ELSE Commit(LReturn(t, Cur))

\* line 109: h5lock!
LIncLock(t) ==
    /\ th[t].pc = "l_inc_lock"
    /\ Available(t, "g", 0)
    /\ Commit(LStep(t, [Cur EXCEPT !.th[t].pc = "l_inc_id2"], lk.hl[t] \o <<"g">>))

\* line 109: self.id(), H5Iinc_ref, and out of the h5lock! of line 109
LIncId2(t) ==
    /\ th[t].pc = "l_inc_id2"
    /\ IF ~Locked(t)
       THEN Take(t, "rd", handles[th[t].h])
       ELSE LET v == id(th[t].h)
                s == [Cur EXCEPT !.refs = H5Iinc_ref(v)]
            IN  IF th[t].op = "clone"
                THEN Commit(LStep(t, [s EXCEPT !.th[t].pc = "l_clone_id", !.th[t].v = v],
                                  SubSeq(Base(t), 1, Len(Base(t)) - 1)))
                ELSE Commit(LReturn(t, s))

\* Clone::clone line 140: self.id()
LCloneId(t) ==
    /\ th[t].pc = "l_clone_id"
    /\ IF ~Locked(t)
       THEN Take(t, "rd", handles[th[t].h])
       ELSE Commit(LStep(t, [Cur EXCEPT !.th[t].pc = "l_new", !.th[t].id = id(th[t].h)],
                         Base(t)))

\* Drop::drop line 147 and decref line 114: h5lock! twice
LDrop(t, h) ==
    /\ th[t].pc = "idle"
    /\ handles[h] # 0 /\ ~Borrowed(h)
    /\ Available(t, "g", 0)
    /\ Commit(LStep(t, [Cur EXCEPT !.th[t] = [Blank EXCEPT !.pc = "l_dec_id1",
                                  !.op = "drop", !.h = h]],
                    <<"g", "g">>))

\* Handle::decref called by itself, line 114: h5lock!
LDecref(t, h) ==
    /\ th[t].pc = "idle"
    /\ Usable(h)
    /\ Available(t, "g", 0)
    /\ Commit(LStep(t, [Cur EXCEPT !.th[t] = [Blank EXCEPT !.pc = "l_dec_id1",
                                  !.op = "decref", !.h = h]],
                    <<"g">>))

\* line 115: self.id() of self.is_valid_id()
LDecId1(t) ==
    /\ th[t].pc = "l_dec_id1"
    /\ IF ~Locked(t)
       THEN Take(t, "rd", handles[th[t].h])
       ELSE Commit(LStep(t, [Cur EXCEPT !.th[t].pc = "l_dec_valid1",
                                 !.th[t].v = id(th[t].h)],
                         Base(t)))

\* lines 115, 23, 11, 12: h5lock! three times, H5Iget_type
LDecValid1(t) ==
    /\ th[t].pc = "l_dec_valid1"
    /\ Available(t, "g", 0)
    /\ Commit(LStep(t, [Cur EXCEPT !.th[t].pc = IF decref_decrements(th[t].v)
                                                THEN "l_dec_id2" ELSE "l_dec_id3"],
                    lk.hl[t]))

\* line 116: self.id(), H5Idec_ref
LDecId2(t) ==
    /\ th[t].pc = "l_dec_id2"
    /\ IF ~Locked(t)
       THEN Take(t, "rd", handles[th[t].h])
       ELSE LET v == id(th[t].h)
                nr == H5Idec_ref(v)
            IN  Commit(LStep(t, [Cur EXCEPT !.refs = nr, !.cat = CatAfter(nr),
                                     !.th[t].pc = "l_dec_id3", !.th[t].v = v],
                             Base(t)))

\* line 119: self.id() of self.is_valid_user_id()
LDecId3(t) ==
    /\ th[t].pc = "l_dec_id3"
    /\ IF ~Locked(t)
       THEN Take(t, "rd", handles[th[t].h])
       ELSE Commit(LStep(t, [Cur EXCEPT !.th[t].pc = "l_dec_uvalid",
                                 !.th[t].v = id(th[t].h)],
                         Base(t)))

\* the end of decref and of the drop that called it
LFinish(t, s) ==
    Commit(LReturn(t, [s EXCEPT !.handles = IF th[t].op = "drop"
                                            THEN [handles EXCEPT ![th[t].h] = 0]
                                            ELSE handles]))

\* lines 119, 30: h5lock!, H5Iis_valid
LDecUValid(t) ==
    /\ th[t].pc = "l_dec_uvalid"
    /\ Available(t, "g", 0)
    /\ IF is_valid_user_id(th[t].v)
       THEN LFinish(t, Cur)
       ELSE Commit(LStep(t, [Cur EXCEPT !.th[t].pc = "l_dec_id4"], lk.hl[t]))

\* line 119: self.id() of self.is_valid_id()
LDecId4(t) ==
    /\ th[t].pc = "l_dec_id4"
    /\ IF ~Locked(t)
       THEN Take(t, "rd", handles[th[t].h])
       ELSE Commit(LStep(t, [Cur EXCEPT !.th[t].pc = "l_dec_valid2",
                                 !.th[t].v = id(th[t].h)],
                         Base(t)))

\* lines 119, 23, 11, 12: h5lock! three times, H5Iget_type
LDecValid2(t) ==
    /\ th[t].pc = "l_dec_valid2"
    /\ Available(t, "g", 0)
    /\ IF decref_invalidates(th[t].v)
       THEN Commit(LStep(t, [Cur EXCEPT !.th[t].pc = "l_dec_write"], lk.hl[t]))
       ELSE LFinish(t, Cur)

\* lines 120, 104: self.id.write(), then the store
LDecWrite(t) ==
    /\ th[t].pc = "l_dec_write"
    /\ IF ~Locked(t)
       THEN Take(t, "wr", handles[th[t].h])
       ELSE LFinish(t, [Cur EXCEPT !.cells = invalidate(handles[th[t].h])])

\* Handle::id called by itself, line 100: self.id.read()
LId(t, h) ==
    /\ th[t].pc = "idle"
    /\ Usable(h)
    /\ Available(t, "rd", handles[h])
    /\ Commit(LCellLock(t, [Cur EXCEPT !.th[t] = [Blank EXCEPT !.pc = "l_id", !.op = "id",
                                      !.h = h]],
                        "rd", handles[h]))

\* line 100: the value is copied and the read guard dropped
LIdReturn(t) ==
    /\ th[t].pc = "l_id"
    /\ Commit(LReturn(t, Cur))

\* Handle::invalidate called by itself, line 104: self.id.write()
LInvalidate(t, h) ==
    /\ th[t].pc = "idle"
    /\ Usable(h)
    /\ Available(t, "wr", handles[h])
    /\ Commit(LCellLock(t, [Cur EXCEPT !.th[t] = [Blank EXCEPT !.pc = "l_invalidate",
                                      !.op = "invalidate", !.h = h]],
                        "wr", handles[h]))

\* line 104: the store, and the write guard dropped
LInvalidateReturn(t) ==
    /\ th[t].pc = "l_invalidate"
    /\ Commit(LReturn(t, [Cur EXCEPT !.cells = invalidate(handles[th[t].h])]))

\* the steps that carry on an operation of thread t
LCont(t) ==
    \/ LNewInner(t)
    \/ LRegLock(t)
    \/ LCellRead(t)
    \/ LIncId1(t)
    \/ LIncValid(t)
    \/ LIncLock(t)
    \/ LIncId2(t)
    \/ LCloneId(t)
    \/ LDecId1(t)
    \/ LDecValid1(t)
    \/ LDecId2(t)
    \/ LDecId3(t)
    \/ LDecUValid(t)
    \/ LDecId4(t)
    \/ LDecValid2(t)
    \/ LDecWrite(t)
    \/ LIdReturn(t)
    \/ LInvalidateReturn(t)

NextLocks ==
    \/ \E x \in RegIds, k \in Categories : LibIssue(x, k)
    \/ \E t \in Threads, x \in AllIds : LFromId(t, x)
    \/ \E t \in Threads, x \in AllIds : LNew(t, x)
    \/ \E t \in Threads, h \in Handles : LClone(t, h)
    \/ \E t \in Threads, h \in Handles : LIncref(t, h)
    \/ \E t \in Threads, h \in Handles : LDrop(t, h)
    \/ \E t \in Threads, h \in Handles : LDecref(t, h)
    \/ \E t \in Threads, h \in Handles : LId(t, h)
    \/ \E t \in Threads, h \in Handles : LInvalidate(t, h)
    \/ \E t \in Threads : Invalid(t)
    \/ \E t \in Threads : LCont(t)

SpecLocks == Init /\ [][NextLocks]_vars

\* the thread has the lock it asks for at its position within reach: it is
\* inside a Shared Cell lock, which it releases without waiting, or the lock
\* of its next acquisition is there to take
CanStep(t) == Locked(t) \/ Available(t, Wants(th[t].pc), WantsCell(t))

\* the thread is inside an operation and waits for a lock another thread has
Blocked(t) == th[t].pc # "idle" /\ ~CanStep(t)

\* the scheduler runs every thread that stays able to run; callers are free
\* to start operations or not
SpecLocksWF == SpecLocks /\ \A t \in Threads : WF_vars(LCont(t))

TypeOK ==
    /\ refs \in [RegIds -> 0..MaxRef]
    /\ cat \in [1..PredefId -> Categories]
    /\ cells \in [Cells -> AllIds]
    /\ registry \in [AllIds -> Cells \cup {0}]
    /\ handles \in [Handles -> Cells \cup {0}]
    /\ h5owner \in Threads \cup {0}
    /\ degraded \subseteq Handles

\* ------------------------------------------------------------------ claims
Sharers(c) == {h \in Handles : handles[h] = c}

\* C1: a Handle h on a user-valid id x is cloned into h2 and h2 is dropped,
\* with nothing else acting on the ids, cells or Handles in between: h's cell
\* still holds x, x is still valid and user-valid, and the native reference
\* count of x is what it was before the clone, at least 1.
C1_CloneThenDropRestores ==
    rt.st = "dropped" =>
        /\ handles[rt.src] # 0
        /\ id(rt.src) = rt.x
        /\ is_valid_id(id(rt.src))
        /\ is_valid_user_id(id(rt.src))
        /\ refs[rt.x] = rt.r0
        /\ rt.r0 >= 1

C1_Witness ==
    /\ rt.st = "dropped"
    /\ last.op = "drop" /\ last.h = rt.h2 /\ last.ndec = 1
    /\ handles[rt.src] # 0

\* C2: when a drop has issued the decrement that released its id, then at
\* the return of that drop the cell of the dropped Handle holds INVALID:
\* every remaining Handle on that cell reports id() = INVALID and is not
\* valid.
C2_ReleaseInvalidatesCoOwners ==
    (last.op = "drop" /\ last.rel) =>
        /\ ~is_valid_id(last.id) /\ ~is_valid_user_id(last.id)
        /\ cells[last.c] = H5I_INVALID_HID
        /\ \A h \in Sharers(last.c) : id(h) = H5I_INVALID_HID /\ ~is_valid_id(id(h))

C2_Witness ==
    /\ last.op = "drop" /\ last.rel
    /\ Sharers(last.c) # {}

\* C3: Handle::new(x) that finds a stale entry for x (its cell no longer
\* holds x) returns a new cell holding x, distinct from the stale cell; the
\* stale cell still holds INVALID and no Handle on it reports x.
C3_StaleEntryReplaced ==
    (last.op \in {"new", "from_id", "clone"} /\ last.pk = "stale") =>
        /\ last.r # last.prev
        /\ cells[last.r] = last.id
        /\ registry[last.id] = last.r
        /\ cells[last.prev] = H5I_INVALID_HID
        /\ \A h \in Sharers(last.prev) : handles[h] # last.r /\ id(h) # last.id

C3_Witness ==
    /\ last.op = "new" /\ last.pk = "stale"
    /\ Sharers(last.prev) # {}
    /\ Sharers(last.r) # {}

\* C4: Handle::new(x) that finds an entry whose cell still holds x returns
\* that very cell: every Handle that reports x shares the cell returned.
C4_LiveIdResolvesToSameCell ==
    (last.op \in {"new", "from_id"} /\ last.ret = "ok" /\ last.pk = "same") =>
        /\ last.r = last.prev
        /\ handles[last.nh] = last.r
        /\ \A h \in Handles : (handles[h] # 0 /\ id(h) = last.id) => handles[h] = last.r

C4_Witness ==
    /\ last.op = "new" /\ last.ret = "ok" /\ last.pk = "same"
    /\ Cardinality(Sharers(last.r)) = 2

\* C5: with callers that only create, clone and drop Handles, the decrements
\* issued for an id never exceed the references held on it (the one of its
\* issue plus the increments issued), and a thread inside H5Idec_ref is there
\* with an id that is structurally valid.
C5_NoDoubleRelease ==
    /\ \A x \in RegIds : held[x] >= 0
    /\ \A t \in Threads : th[t].pc = "decref_dec_ref" => is_valid_id(th[t].v)

C5_Witness ==
    /\ rt.st = "dropped" /\ last.op = "drop" /\ last.t # rt.t
    /\ last.ndec = 1

\* C6: a thread inside a call of the native library holds the global lock,
\* and no two threads are inside native calls together.
C6_NativeCallsUnderLock ==
    /\ \A t \in Threads : InNative(t) => h5owner = t
    /\ Cardinality({t \in Threads : InNative(t)}) <= 1

\* one thread is inside a native call while the other waits for the lock
C6_Witness ==
    \E t, u \in Threads :
        /\ t # u
        /\ InNative(t) /\ h5owner = t
        /\ th[u].pc \in {"incref_read", "incref_relock"}

\* C7: a clone of a Handle whose id is user-valid issues one increment and
\* no decrement; a drop of a Handle whose id is structurally valid issues one
\* decrement and no increment; a drop that did not release its id changes
\* the value of no cell (the other Handles keep their id), and after the drop
\* that released the id the cell holds INVALID.
C7_CloneDropAccounting ==
    /\ (last.op = "clone" /\ last.b) => (last.ninc = 1 /\ last.ndec = 0)
    /\ (last.op = "drop" /\ last.b) => (last.ndec = 1 /\ last.ninc = 0)
    /\ (last.op = "drop" /\ ~last.rel) => ~last.wr
    /\ (last.op = "drop" /\ last.rel) => cells[last.c] = H5I_INVALID_HID

C7_Witness ==
    /\ last.op = "drop" /\ last.b /\ ~last.rel
    /\ rt.st = "dropped"
    /\ id(rt.src) = last.id

\* C8: Handle::new(x) on an id that is user-valid returns a Handle whose
\* id() is x and which is user-valid, whether the Registry held no entry for
\* x, an entry whose cell holds x, or a stale entry.
C8_NewOnValidId ==
    (last.op = "new" /\ last.b) =>
        /\ last.ret = "ok"
        /\ last.nh # 0 /\ handles[last.nh] = last.r
        /\ id(last.nh) = last.id
        /\ is_valid_user_id(id(last.nh))

C8_Witness ==
    /\ last.op = "new" /\ last.b /\ last.ret = "ok"
    /\ last.pk = "stale"
    /\ id(last.nh) = last.id

\* C9: Handle::new(x) on an id that is not user-valid returns InvalidHandle,
\* makes no Handle, and changes neither the Registry, nor a cell, nor a
\* native reference count.
C9_NewOnInvalidId ==
    (last.op = "new" /\ ~last.b) =>
        /\ last.ret = "InvalidHandle"
        /\ last.r = 0
        /\ ~last.chg
        /\ last.ninc = 0 /\ last.ndec = 0
        /\ handles[last.nh] = 0

C9_Witness ==
    /\ last.op = "new" /\ last.ret = "InvalidHandle"
    /\ is_valid_id(last.id)

\* C10: from_id(x) on an id whose category the wrapper does not accept
\* returns WrongType for x, resolves nothing through the Registry, and
\* issues no increment and no decrement.
C10_FromIdWrongType ==
    (last.op = "from_id" /\ ~is_valid_id_type(get_id_type(last.id))) =>
        /\ last.ret = "WrongType"
        /\ last.r = 0 /\ last.pk = "none"
        /\ ~last.chg
        /\ last.ninc = 0 /\ last.ndec = 0
        /\ handles[last.nh] = 0

C10_Witness ==
    /\ last.op = "from_id" /\ last.ret = "WrongType"
    /\ is_valid_user_id(last.id)

\* C11: clone always returns a Handle; a clone of a Handle whose id is not
\* user-valid at the check of the clone returns a Handle on a cell of its own
\* that holds INVALID and issues no increment; such a Handle reports INVALID
\* as long as it lives, and its drop issues no decrement.
C11_CloneNeverFails ==
    /\ last.op = "clone" =>
            /\ last.ret = "ok"
            /\ last.nh # 0 /\ last.r # 0 /\ handles[last.nh] = last.r
    /\ (last.op = "clone" /\ ~last.b) =>
            /\ cells[last.r] = H5I_INVALID_HID
            /\ last.ninc = 0 /\ last.ndec = 0
            /\ last.nh \in degraded
    /\ \A h \in degraded : handles[h] # 0 /\ id(h) = H5I_INVALID_HID
    /\ (last.op = "drop" /\ last.pk = "degraded") => (last.ndec = 0 /\ last.ninc = 0)

C11_Witness ==
    /\ last.op = "drop" /\ last.pk = "degraded"
    /\ last.ndec = 0

\* C12: for every id x <= 0, get_id_type(x) is H5I_BADID and is_valid_id(x)
\* is false, whatever H5Iget_type answers for x.
C12_NonPositiveIdIsBad ==
    probe.id <= 0 =>
        /\ probe.got => probe.cat = H5I_BADID
        /\ probe.chk => ~probe.ok

C12_Witness ==
    /\ probe.id <= 0 /\ probe.id # H5I_INVALID_HID
    /\ probe.tp > H5I_BADID /\ probe.tp < H5I_NTYPES
    /\ probe.got /\ probe.chk

\* a cell holds INVALID or an id the library knows as valid or user-valid
CellLive(c) ==
    \/ cells[c] = H5I_INVALID_HID
    \/ is_valid_id(cells[c])
    \/ is_valid_user_id(cells[c])

\* a decref whose H5Idec_ref released the id and which has not yet reached
\* its invalidate of line 120
Releasing(t) == th[t].rel /\ th[t].pc \in {"decref_is_valid", "decref_get_type2"}

\* C13 as stated: in every reachable state every cell holds INVALID or an id
\* that is valid or user-valid in the library.
C13_EveryStateI1 == \A c \in Cells : CellLive(c)

\* C13, amended: in every state where no decref is between the H5Idec_ref
\* that released its id and its invalidate (so in every state where the
\* global lock is free), every cell holds INVALID or an id that is valid or
\* user-valid in the library.
C13_I1OutsideRelease ==
    (\A t \in Threads : ~Releasing(t)) => \A c \in Cells : CellLive(c)

C13_Witness ==
    /\ last.op = "decref" /\ last.rel
    /\ Sharers(last.c) # {}
    /\ \A t \in Threads : ~Releasing(t)

\* C14: a thread inside the H5Iinc_ref of incref is there with an id that is
\* user-valid, and an incref that found its id not user-valid issued no
\* increment and changed nothing.
C14_IncrefOnlyUserValid ==
    /\ \A t \in Threads : th[t].pc = "incref_inc_ref" => is_valid_user_id(th[t].v)
    /\ (last.op = "incref" /\ ~last.b) => (last.ninc = 0 /\ ~last.chg)

\* the locks a thread holds were taken in the order: the global lock (once or
\* more), then the Registry mutex, then one Shared Cell lock, which under the
\* Registry mutex is a read lock
WellOrdered(hl) ==
    \A i \in 1..Len(hl) :
        /\ hl[i] = "g" => \A j \in 1..(i - 1) : hl[j] = "g"
        /\ hl[i] = "reg" => (i > 1 /\ hl[i - 1] = "g")
        /\ hl[i] \in {"rd", "wr"} =>
                /\ i = Len(hl)
                /\ (i > 1 /\ hl[i - 1] = "reg") => hl[i] = "rd"

\* C15: a thread that holds the Registry mutex holds the global lock; a
\* thread about to take or re-enter the global lock holds neither the
\* Registry mutex nor a Shared Cell lock; and the locks a thread holds
\* together were taken global lock first, then the Registry mutex, then a
\* Shared Cell lock, the only lock taken under the Registry mutex being a
\* Shared Cell read lock.
C15_LockOrder ==
    \A t \in Threads :
        /\ Holds(t, "reg") => (Holds(t, "g") /\ h5owner = t)
        /\ Holds(t, "g") <=> h5owner = t
        /\ WellOrdered(lk.hl[t])
        /\ Wants(th[t].pc) = "g" => (~Holds(t, "reg") /\ ~Locked(t))

\* a thread reads the entry's cell under the Registry mutex and the global
\* lock while the other thread holds a Shared Cell lock without them
C15_Witness ==
    \E t, u \in Threads :
        /\ t # u
        /\ Holds(t, "g") /\ Holds(t, "reg") /\ Locked(t)
        /\ Locked(u) /\ ~Holds(u, "g")

\* C16: a drop or a decref of a Handle whose cell holds INVALID when the
\* operation starts issues no increment and no decrement, leaves that cell
\* holding INVALID, and changes no cell value and no Registry entry; a
\* decref changes nothing at all, a drop only ends its own Handle.
C16_DropOfInvalidIsNoOp ==
    (last.op \in {"drop", "decref"} /\ last.v0 = H5I_INVALID_HID) =>
        /\ last.ninc = 0 /\ last.ndec = 0 /\ ~last.rel
        /\ cells[last.c] = H5I_INVALID_HID
        /\ ~last.wr /\ ~last.rg
        /\ last.op = "decref" => ~last.chg
        /\ last.op = "drop" => handles[last.h] = 0

\* the dropped Handle's cell is the stale entry of an id the library has
\* issued again
C16_Witness ==
    /\ last.op = "drop" /\ last.v0 = H5I_INVALID_HID
    /\ \E x \in RegIds : registry[x] = last.c /\ refs[x] > 0 /\ is_valid_user_id(x)

\* C17: in every step, a cell that exists keeps its value or goes to INVALID
\* (so a cell that holds INVALID holds it for ever), and a Handle that lives
\* on keeps its cell; Handle::new, from_id and clone change the value of no
\* cell that existed before them; so a Handle that reports INVALID never
\* reports an id again.
C17_InvalidationIsPermanent ==
    /\ [][/\ \A c \in Roots : cells'[c] \in {cells[c], H5I_INVALID_HID}
          /\ \A h \in Handles :
                (handles[h] # 0 /\ handles'[h] # 0) =>
                    /\ handles'[h] = handles[h]
                    /\ id(h) = H5I_INVALID_HID => cells'[handles'[h]] = H5I_INVALID_HID]_vars
    /\ [](last.op \in {"new", "from_id", "clone"} => ~last.wr)

\* a Handle still on the stale cell of an id that Handle::new has just
\* resolved to a new cell
C17_Witness ==
    /\ last.op \in {"new", "from_id"} /\ last.pk = "stale" /\ last.ret = "ok"
    /\ is_valid_user_id(last.id) /\ cells[last.r] = last.id
    /\ \E h \in Sharers(last.prev) : id(h) = H5I_INVALID_HID

\* C18: a cell that holds an id other than INVALID is the cell the Registry
\* maps that id to, so at most one cell holds it; two Handles that report
\* the same id other than INVALID are on one cell.
C18_OneCellPerId ==
    /\ \A c \in Cells : cells[c] # H5I_INVALID_HID => registry[cells[c]] = c
    /\ \A c, d \in Cells : (cells[c] = cells[d] /\ cells[c] # H5I_INVALID_HID) => c = d
    /\ \A g, h \in Handles :
            (handles[g] # 0 /\ handles[h] # 0 /\ id(g) = id(h) /\ id(g) # H5I_INVALID_HID)
                => handles[g] = handles[h]

\* two Handles made by two calls of Handle::new report the same id
C18_Witness ==
    /\ last.op = "new" /\ last.ret = "ok"
    /\ \E g, h \in Handles :
            /\ g # h /\ h = last.nh
            /\ handles[g] # 0 /\ handles[h] # 0
            /\ id(g) = id(h) /\ id(g) # H5I_INVALID_HID

\* the live Handles whose cell holds x
Owners(x) == {h \in Handles : handles[h] # 0 /\ id(h) = x}

\* C19: with one Handle::new per issued id and otherwise only clone and
\* drop, whenever no operation is running the reference count of every live
\* id that has been wrapped is the number of live Handles whose cell holds
\* it (an id not yet wrapped has count 1 and no Handle); and a drop releases
\* its id exactly when it leaves no Handle on the cell, the count being 0
\* then.
C19_RefcountIsHandleCount ==
    /\ h5owner = 0 =>
            \A x \in RegIds :
                /\ Unwrapped(x) => (refs[x] = 1 /\ Owners(x) = {})
                /\ ~Unwrapped(x) => refs[x] = Cardinality(Owners(x))
    /\ last.op = "drop" =>
            /\ last.ndec = 1
            /\ last.rel <=> Sharers(last.c) = {}
            /\ last.rel => refs[last.id] = 0
            /\ ~last.rel => refs[last.id] = Cardinality(Sharers(last.c))

\* the drop of one of two Handles on an id, by the thread that did not
\* clone it
C19_Witness ==
    /\ last.op = "drop" /\ ~last.rel
    /\ rt.st = "dropped" /\ rt.t # last.t
    /\ refs[last.id] = 1 /\ Cardinality(Owners(last.id)) = 1

====
